---- MODULE Spec2Model ----
(***************************************************************************)
(* State-vector simulator of src/state.py: class State with the gates x,   *)
(* cx, s, t, h and the projective measurement measure.                     *)
(*                                                                         *)
(* Arithmetic.  Python's complex doubles are modelled by exact numbers.    *)
(* Every amplitude the gates can produce lies in the ring Z[w][1/sqrt 2],  *)
(* w = exp(i*pi/4) (line 88), and is written <<a, b, c, d, k>> for         *)
(*      (a + b*w + c*w^2 + d*w^3) / sqrt(2)^k .                            *)
(* measure divides every entry by the same real sqrt(prob_0) or            *)
(* sqrt(1 - prob_0) (lines 140, 145), which leaves that ring, so the       *)
(* product of the squared divisors applied so far is kept in div2: the     *)
(* amplitude of entry <<b, z>> of state is z / sqrt(div2).  Squared        *)
(* magnitudes and probabilities lie in the field Q(sqrt 2) and are written *)
(* <<p, q, d>> for (p + q*sqrt 2) / d with d > 0 in lowest terms.          *)
(* Rounding of floating point is not modelled.                             *)
(***************************************************************************)
EXTENDS Integers, Sequences, FiniteSets

(* ---------------- bounds of the model ---------------- *)
\* calls per run: of Spec and SpecGates, of SpecAny, of SpecOne
MaxCalls == 3
MaxCallsAny == 2
MaxCallsOne == 5
\* the arguments of State(n_qubits, n_bits) tried
QubitCounts == {1, 2}
BitCounts == {0, 2}

(* ---------------- integers ---------------- *)
IAbs(x) == IF x < 0 THEN -x ELSE x

RECURSIVE Gcd(_, _)
Gcd(x, y) == IF y = 0 THEN IAbs(x) ELSE Gcd(y, x % IAbs(y))

RECURSIVE Pow2(_)
Pow2(k) == IF k = 0 THEN 1 ELSE 2 * Pow2(k - 1)

(* ---------------- the field Q(sqrt 2) ---------------- *)
QMake(p, q, d) ==
    LET g == Gcd(Gcd(p, q), d)
        s == IF d < 0 THEN -1 ELSE 1
    IN  <<(s * p) \div g, (s * q) \div g, (s * d) \div g>>

QZero == <<0, 0, 1>>
QOne == <<1, 0, 1>>
QAdd(x, y) == QMake(x[1] * y[3] + y[1] * x[3], x[2] * y[3] + y[2] * x[3], x[3] * y[3])
QNeg(x) == <<-x[1], -x[2], x[3]>>
QSub(x, y) == QAdd(x, QNeg(y))
QMul(x, y) == QMake(x[1] * y[1] + 2 * x[2] * y[2], x[1] * y[2] + x[2] * y[1], x[3] * y[3])
\* 1 / (p + q*sqrt 2) = (p - q*sqrt 2) / (p^2 - 2 q^2)
QDiv(x, y) ==
    QMul(x, QMake(y[1] * y[3], -(y[2] * y[3]), y[1] * y[1] - 2 * y[2] * y[2]))
\* the sign of p + q*sqrt 2
QPos(x) ==
    \/ x[1] > 0 /\ x[2] >= 0
    \/ x[1] >= 0 /\ x[2] > 0
    \/ x[1] > 0 /\ x[2] < 0 /\ x[1] * x[1] > 2 * x[2] * x[2]
    \/ x[1] < 0 /\ x[2] > 0 /\ 2 * x[2] * x[2] > x[1] * x[1]
QLess(x, y) == QPos(QSub(y, x))
QGeq(x, y) == ~QLess(x, y)

(* ---------------- the ring Z[w][1/sqrt 2] ---------------- *)
\* sqrt 2 = w - w^3; z divided by sqrt 2 stays integral iff a+c and b-d are even
RECURSIVE ZNorm(_)
ZNorm(z) ==
    IF z[1] = 0 /\ z[2] = 0 /\ z[3] = 0 /\ z[4] = 0 THEN <<0, 0, 0, 0, 0>>
    ELSE IF z[5] > 0 /\ (z[1] + z[3]) % 2 = 0 /\ (z[2] - z[4]) % 2 = 0
         THEN ZNorm(<<(z[2] - z[4]) \div 2, (z[1] + z[3]) \div 2,
                      (z[2] + z[4]) \div 2, (z[3] - z[1]) \div 2, z[5] - 1>>)
         ELSE z

ZZero == <<0, 0, 0, 0, 0>>
ZOne == <<1, 0, 0, 0, 0>>

\* the same number with the exponent of sqrt 2 raised to k
RECURSIVE ZLift(_, _)
ZLift(z, k) ==
    IF z[5] >= k THEN z
    ELSE ZLift(<<z[2] - z[4], z[1] + z[3], z[2] + z[4], z[3] - z[1], z[5] + 1>>, k)

ZAdd(x, y) ==
    LET k == IF x[5] > y[5] THEN x[5] ELSE y[5]
        u == ZLift(x, k)
        v == ZLift(y, k)
    IN  ZNorm(<<u[1] + v[1], u[2] + v[2], u[3] + v[3], u[4] + v[4], k>>)

ZNeg(z) == <<-z[1], -z[2], -z[3], -z[4], z[5]>>
\* z * w  (w^4 = -1)
ZMulW(z) == <<-z[4], z[1], z[2], z[3], z[5]>>
\* z * i  (i = w^2)
ZMulI(z) == <<-z[3], -z[4], z[1], z[2], z[5]>>
\* z * (1 / sqrt 2)
ZMulNorm(z) == ZNorm(<<z[1], z[2], z[3], z[4], z[5] + 1>>)
\* |z|^2 = ((a^2+b^2+c^2+d^2) + (ab+bc+cd-da) sqrt 2) / 2^k
ZAbs2(z) ==
    QMake(z[1] * z[1] + z[2] * z[2] + z[3] * z[3] + z[4] * z[4],
          z[1] * z[2] + z[2] * z[3] + z[3] * z[4] - z[4] * z[1],
          Pow2(z[5]))

(* ---------------- bit strings ---------------- *)
\* Python's x[i] on a sequence of length n: valid for -n <= i < n, counted
\* from the end when negative; every other index raises IndexError.
IndexOk(i, n) == -n <= i /\ i < n
PyIdx(i, n) == IF i < 0 THEN i + n + 1 ELSE i + 1

RECURSIVE Key(_, _)
\* bitarray(format(i, "0nb")): the n binary digits of i, most significant first
Key(i, n) == IF n = 0 THEN <<>> ELSE Append(Key(i \div 2, n - 1), i % 2)

set_bit(x, i, v) == [x EXCEPT ![PyIdx(i, Len(x))] = v]

\* the mask "0"*i + "1" + "0"*(len(x)-i-1) has the length of x only for
\* 0 <= i < len(x); x ^ mask raises ValueError for every other i
FlipOk(i, n) == 0 <= i /\ i < n
flip(x, i) == [x EXCEPT ![i + 1] = 1 - x[i + 1]]

Bit(b, j) == b[PyIdx(j, Len(b))]

(* ---------------- the program's state ---------------- *)
VARIABLES
    n_qubits,   \* self.n_qubits
    m_bits,     \* self.m_bits
    state,      \* self.state: the sequence of <<basis key, amplitude>> pairs
    div2,       \* the squared real divisor measure has applied to every amplitude
    broken,     \* self.state is a lazy sequence whose evaluation raises
    cbits,      \* self.cbits
    calls,      \* number of calls made so far
    last        \* the last call: its arguments, what it saw and what it did

vars == <<n_qubits, m_bits, state, div2, broken, cbits, calls, last>>

NoCall ==
    [op |-> "init", j |-> 0, k |-> 0, hascbit |-> FALSE, cbit |-> 0,
     r |-> QZero, prob_0 |-> QZero, measurement |-> 0, raised |-> FALSE,
     state |-> <<>>, div2 |-> QOne, cbits |-> <<>>, pop |-> "init", pj |-> 0]

InitState(n) == [i \in 1..Pow2(n) |-> <<Key(i - 1, n), IF i = 1 THEN ZOne ELSE ZZero>>]

Init ==
    /\ n_qubits \in QubitCounts
    /\ m_bits \in BitCounts
    /\ state = InitState(n_qubits)
    /\ div2 = QOne
    /\ broken = FALSE
    /\ cbits = [i \in 1..m_bits |-> 0]
    /\ calls = 0
    /\ last = NoCall

(* ---------------- gates as maps over the entries ---------------- *)
x_map(st, j) == [i \in 1..Len(st) |-> <<flip(st[i][1], j), st[i][2]>>]
x_raises(st, j) == Len(st) > 0 /\ ~FlipOk(j, n_qubits)

cx_map(st, j, k) ==
    [i \in 1..Len(st) |->
        <<IF Bit(st[i][1], j) = 0 THEN st[i][1] ELSE flip(st[i][1], k), st[i][2]>>]
cx_raises(st, j, k) ==
    \/ Len(st) > 0 /\ ~IndexOk(j, n_qubits)
    \/ /\ IndexOk(j, n_qubits)
       /\ ~FlipOk(k, n_qubits)
       /\ \E i \in 1..Len(st) : Bit(st[i][1], j) = 1

s_map(st, j) ==
    [i \in 1..Len(st) |->
        <<st[i][1], IF Bit(st[i][1], j) = 1 THEN ZMulI(st[i][2]) ELSE st[i][2]>>]

t_map(st, j) ==
    [i \in 1..Len(st) |->
        <<st[i][1], IF Bit(st[i][1], j) = 1 THEN ZMulW(st[i][2]) ELSE st[i][2]>>]

idx_raises(st, j) == Len(st) > 0 /\ ~IndexOk(j, n_qubits)

\* h_sign without the sign: both contributions get +1
h_sign_none(bit, z) == z

\* the second contribution's factor: -1 if b[j] else 1
h_sign(bit, z) == IF bit = 1 THEN ZNeg(z) ELSE z

\* smap(...).flatten(): entry i yields elements 2i-1 and 2i
h_fan(st, j) ==
    [n \in 1..(2 * Len(st)) |->
        LET e == st[(n + 1) \div 2]
        IN  IF n % 2 = 1
            THEN <<set_bit(e[1], j, 0), ZMulNorm(e[2])>>
            ELSE <<set_bit(e[1], j, 1), h_sign(Bit(e[1], j), ZMulNorm(e[2]))>>]

\* h_merge as an overwrite: the later contribution replaces the earlier
h_merge_overwrite(x, y) == y

\* lambda x, y: x + y
h_merge(x, y) == ZAdd(x, y)

RECURSIVE reduce_from(_, _, _)
reduce_from(s, i, acc) ==
    IF i > Len(s) THEN acc
    ELSE LET e == s[i]
             hit == {n \in 1..Len(acc) : acc[n][1] = e[1]}
         IN  IF hit = {}
             THEN reduce_from(s, i + 1, Append(acc, e))
             ELSE LET n == CHOOSE n \in hit : TRUE
                  IN  reduce_from(s, i + 1,
                          [acc EXCEPT ![n] = <<e[1], h_merge(acc[n][2], e[2])>>])

\* reduce_by_key: one entry per key, in order of first appearance
reduce_by_key(s) == reduce_from(s, 1, <<>>)

h_map(st, j) == reduce_by_key(h_fan(st, j))

(* ---------------- measurement ---------------- *)
RECURSIVE SumAbs2(_, _)
\* .smap(lambda _, a: abs(a) ** 2).sum() over the first i entries of s
SumAbs2(s, i) ==
    IF i = 0 THEN QZero
    ELSE QAdd(SumAbs2(s, i - 1), QDiv(ZAbs2(s[i][2]), div2))

\* filter_0 keeping the entries with bit j = 1 instead
filter_1(st, j) == SelectSeq(st, LAMBDA e : Bit(e[1], j) = 1)

\* self.state.filter(lambda s: not s[0][j])
filter_0(st, j) == SelectSeq(st, LAMBDA e : Bit(e[1], j) = 0)

prob_0_of(st, j) == LET f == filter_0(st, j) IN SumAbs2(f, Len(f))

\* measurement_of with a strict comparison: a tie gives 0
measurement_gt(r, p) == IF QLess(p, r) THEN 1 ELSE 0

\* int(random.random() >= prob_0)
measurement_of(r, p) == IF QGeq(r, p) THEN 1 ELSE 0

\* a * (not b[j])
keep_0(st, j) ==
    [i \in 1..Len(st) |->
        <<st[i][1], IF Bit(st[i][1], j) = 0 THEN st[i][2] ELSE ZZero>>]
\* a * b[j]
keep_1(st, j) ==
    [i \in 1..Len(st) |->
        <<st[i][1], IF Bit(st[i][1], j) = 1 THEN st[i][2] ELSE ZZero>>]

\* collapse that zeroes nothing
collapse_none(st, j, m) == st

collapse(st, j, m) == IF m = 0 THEN keep_0(st, j) ELSE keep_1(st, j)
\* the square of the divisor: sqrt(prob_0) or sqrt(1.0 - prob_0)
divisor2(p, m) == IF m = 0 THEN p ELSE QSub(QOne, p)

\* write_cbit that writes the outcome to every bit
write_cbit_all(cb, cbit, m) == [i \in 1..Len(cb) |-> m]

\* self.cbits[cbit] = int(measurement)
write_cbit(cb, cbit, m) == [cb EXCEPT ![PyIdx(cbit, Len(cb))] = m]

(* ---------------- the calls ---------------- *)
CallRec(op, j, k) ==
    [NoCall EXCEPT !.op = op, !.j = j, !.k = k, !.state = state, !.div2 = div2,
                   !.cbits = cbits, !.pop = last.op, !.pj = last.j]

\* A gate only appends a lazy transformation to self.state and returns self:
\* nothing is evaluated in the call, so an exception of the mapped function
\* is raised by whatever evaluates the sequence later.
Gate(op, j, k, raises, new) ==
    /\ calls' = calls + 1
    /\ IF broken \/ raises
       THEN broken' = TRUE /\ state' = <<>>
       ELSE broken' = FALSE /\ state' = new
    /\ last' = CallRec(op, j, k)
    /\ UNCHANGED <<n_qubits, m_bits, div2, cbits>>

x(j) == Gate("x", j, 0, x_raises(state, j), x_map(state, j))
cx(j, k) == Gate("cx", j, k, cx_raises(state, j, k), cx_map(state, j, k))
s(j) == Gate("s", j, 0, idx_raises(state, j), s_map(state, j))
t(j) == Gate("t", j, 0, idx_raises(state, j), t_map(state, j))
h(j) == Gate("h", j, 0, idx_raises(state, j), h_map(state, j))

\* measure(j, cbit) with the draw r of random.random(); hascbit = FALSE is cbit=None
measure(j, hascbit, cbit, r) ==
    /\ calls' = calls + 1
    /\ UNCHANGED <<n_qubits, m_bits>>
    /\ IF broken \/ idx_raises(state, j)
       THEN \* .sum() evaluates self.state and raises (lines 123-128)
            /\ last' = [CallRec("measure", j, 0) EXCEPT
                           !.hascbit = hascbit, !.cbit = cbit, !.raised = TRUE]
            /\ UNCHANGED <<state, div2, broken, cbits>>
       ELSE LET p == prob_0_of(state, j)
                m == measurement_of(r, p)
                d == divisor2(p, m)
                rec == [CallRec("measure", j, 0) EXCEPT
                           !.hascbit = hascbit, !.cbit = cbit, !.r = r,
                           !.prob_0 = p, !.measurement = m]
            IN  IF hascbit /\ ~IndexOk(cbit, m_bits)
                THEN \* self.cbits[cbit] raises IndexError (line 135)
                     /\ last' = [rec EXCEPT !.raised = TRUE]
                     /\ UNCHANGED <<state, div2, broken, cbits>>
                ELSE /\ last' = rec
                     /\ cbits' = IF hascbit THEN write_cbit(cbits, cbit, m) ELSE cbits
                     /\ IF QPos(d)
                        THEN /\ state' = collapse(state, j, m)
                             /\ div2' = QMul(div2, d)
                             /\ broken' = FALSE
                        ELSE \* a / sqrt(0.0) or sqrt of a negative: raised on evaluation
                             /\ state' = <<>>
                             /\ div2' = div2
                             /\ broken' = TRUE

(* ---------------- inputs ---------------- *)
Qubits == 0..(n_qubits - 1)
Cbits == 0..(m_bits - 1)
AnyQubit == (-(n_qubits + 1))..n_qubits
AnyCbit == (-(m_bits + 1))..m_bits

\* draws of random.random() in [0, 1): two fixed ones and the tie r = prob_0
Half == <<1, 0, 2>>
Draws(j) ==
    {QZero, Half} \cup
    (IF ~broken /\ IndexOk(j, n_qubits)
     THEN LET p == prob_0_of(state, j)
          IN  IF QGeq(p, QZero) /\ QLess(p, QOne) THEN {p} ELSE {}
     ELSE {})

\* every call with its indices in range
Next ==
    \/ \E j \in Qubits : calls < MaxCalls /\ x(j)
    \/ \E j \in Qubits, k \in Qubits : calls < MaxCalls /\ cx(j, k)
    \/ \E j \in Qubits : calls < MaxCalls /\ s(j)
    \/ \E j \in Qubits : calls < MaxCalls /\ t(j)
    \/ \E j \in Qubits : calls < MaxCalls /\ h(j)
    \/ \E j \in Qubits : \E r \in Draws(j) :
          calls < MaxCalls /\ measure(j, FALSE, 0, r)
    \/ \E j \in Qubits, c \in Cbits : \E r \in Draws(j) :
          calls < MaxCalls /\ measure(j, TRUE, c, r)

Spec == Init /\ [][Next]_vars

\* gates only
NextGates ==
    \/ \E j \in Qubits : calls < MaxCalls /\ x(j)
    \/ \E j \in Qubits, k \in Qubits : calls < MaxCalls /\ cx(j, k)
    \/ \E j \in Qubits : calls < MaxCalls /\ s(j)
    \/ \E j \in Qubits : calls < MaxCalls /\ t(j)
    \/ \E j \in Qubits : calls < MaxCalls /\ h(j)

SpecGates == Init /\ [][NextGates]_vars

\* the same calls with every index drawn from a range that also holds
\* negative and too large values
NextAny ==
    \/ \E j \in AnyQubit : calls < MaxCallsAny /\ x(j)
    \/ \E j \in AnyQubit, k \in AnyQubit : calls < MaxCallsAny /\ cx(j, k)
    \/ \E j \in AnyQubit : calls < MaxCallsAny /\ s(j)
    \/ \E j \in AnyQubit : calls < MaxCallsAny /\ t(j)
    \/ \E j \in AnyQubit : calls < MaxCallsAny /\ h(j)
    \/ \E j \in AnyQubit : \E r \in Draws(j) :
          calls < MaxCallsAny /\ measure(j, FALSE, 0, r)
    \/ \E j \in AnyQubit, c \in AnyCbit : \E r \in Draws(j) :
          calls < MaxCallsAny /\ measure(j, TRUE, c, r)

SpecAny == Init /\ [][NextAny]_vars

\* longer runs of State(1)
InitOne == Init /\ n_qubits = 1 /\ m_bits = 0

NextOne ==
    \/ calls < MaxCallsOne /\ x(0)
    \/ calls < MaxCallsOne /\ cx(0, 0)
    \/ calls < MaxCallsOne /\ s(0)
    \/ calls < MaxCallsOne /\ t(0)
    \/ calls < MaxCallsOne /\ h(0)
    \/ \E r \in Draws(0) : calls < MaxCallsOne /\ measure(0, FALSE, 0, r)

SpecOne == InitOne /\ [][NextOne]_vars

(* ---------------- what the claims speak of ---------------- *)
AllKeys(n) == {Key(i, n) : i \in 0..(Pow2(n) - 1)}

RECURSIVE SumWhere(_, _, _)
\* the sum of the amplitudes of the entries among the first i whose key is b
SumWhere(st, i, b) ==
    IF i = 0 THEN ZZero
    ELSE IF st[i][1] = b THEN ZAdd(SumWhere(st, i - 1, b), st[i][2])
         ELSE SumWhere(st, i - 1, b)

\* the amplitude the mapping holds for key b, a missing key counting as zero
AmpOf(st, b) == SumWhere(st, Len(st), b)
Entries(st, b) == {i \in 1..Len(st) : st[i][1] = b}

RECURSIVE Prob(_, _, _)
\* the sum of |amplitude|^2 over the entries with index in I, divisor d2
Prob(st, d2, I) ==
    IF I = {} THEN QZero
    ELSE LET i == CHOOSE i \in I : TRUE
         IN  QAdd(QDiv(ZAbs2(st[i][2]), d2), Prob(st, d2, I \ {i}))

Norm2(st, d2) == Prob(st, d2, 1..Len(st))
IsGate(op) == op \in {"x", "cx", "s", "t", "h"}
NonZeroKeys(st) == {b \in AllKeys(n_qubits) : AmpOf(st, b) # ZZero}
SameMapping(st1, st2) == \A b \in AllKeys(n_qubits) : AmpOf(st1, b) = AmpOf(st2, b)

(* ---------------- the claims ---------------- *)
Measured == last.op = "measure" /\ ~last.raised
\* key b with bit j (counted from 0) set to v
WithBit(b, j, v) == [b EXCEPT ![j + 1] = v]
QubitOutOfRange ==
    \/ last.op # "init" /\ last.j \notin Qubits
    \/ last.op = "cx" /\ last.k \notin Qubits
CbitOutOfRange == last.op = "measure" /\ last.hascbit /\ last.cbit \notin Cbits

\* C1: after any gate the state holds at most one entry per basis key, for
\* every in-range choice of the qubit arguments, cx(j, k) with j = k included.
C1_OneEntryPerKey ==
    (IsGate(last.op) /\ ~broken) =>
        \A b \in AllKeys(n_qubits) : Cardinality(Entries(state, b)) <= 1

\* C2: a call whose qubit index is outside [0, n_qubits), or whose classical
\* bit index is outside [0, m_bits), raises at that call and changes neither
\* the state nor the classical register.
C2_OutOfRangeCallFails ==
    (QubitOutOfRange \/ CbitOutOfRange) =>
        /\ last.raised
        /\ state = last.state /\ div2 = last.div2 /\ cbits = last.cbits

\* C3: after any sequence of gates with in-range indices the squared
\* magnitudes of the amplitudes sum to 1.
C3_GatesKeepNorm == ~broken => Norm2(state, div2) = QOne

\* C4: after h(j) every destination key has exactly one entry, and the
\* amplitude of a key is (old[b0] + old[b1]) / sqrt 2 when its bit j is 0 and
\* (old[b0] - old[b1]) / sqrt 2 when it is 1, where b0 and b1 are the key with
\* bit j cleared and set.
C4_HMergesByKey ==
    (last.op = "h" /\ ~broken) =>
        \A b \in AllKeys(n_qubits) :
            LET b0 == WithBit(b, last.j, 0)
                b1 == WithBit(b, last.j, 1)
                o0 == AmpOf(last.state, b0)
                o1 == AmpOf(last.state, b1)
                fed == Entries(last.state, b0) \cup Entries(last.state, b1) # {}
            IN  /\ Cardinality(Entries(state, b)) = IF fed THEN 1 ELSE 0
                /\ AmpOf(state, b) =
                       IF b[last.j + 1] = 0 THEN ZMulNorm(ZAdd(o0, o1))
                       ELSE ZMulNorm(ZAdd(o0, ZNeg(o1)))

C4_Witness ==
    /\ last.op = "h" /\ ~broken
    /\ \E b \in AllKeys(n_qubits) :
          /\ AmpOf(last.state, WithBit(b, last.j, 0)) # ZZero
          /\ AmpOf(last.state, WithBit(b, last.j, 1)) # ZZero

\* C5: measure(j) takes prob_0 to be the sum of |amplitude|^2 over exactly the
\* entries whose key has bit j = 0, and its outcome is 0 iff the draw r is
\* below prob_0; a draw equal to prob_0 gives 1.
C5_Prob0AndOutcome ==
    Measured =>
        /\ last.prob_0 =
               Prob(last.state, last.div2,
                    {i \in 1..Len(last.state) : last.state[i][1][last.j + 1] = 0})
        /\ last.measurement \in {0, 1}
        /\ last.measurement = 0 <=> QLess(last.r, last.prob_0)
        /\ last.r = last.prob_0 => last.measurement = 1

C5_Witness ==
    /\ Measured /\ last.r = last.prob_0 /\ last.measurement = 1
    /\ last.prob_0 = Half /\ n_qubits = 2

\* C6: after measure(j) with outcome o every entry whose bit j differs from o
\* is zero, every other entry is its previous amplitude divided by
\* sqrt(prob_0) (o = 0) or sqrt(1 - prob_0) (o = 1), and the squared
\* magnitudes sum to 1.
C6_CollapseRenormalizes ==
    Measured =>
        /\ ~broken
        /\ Len(state) = Len(last.state)
        /\ \A i \in 1..Len(state) :
              /\ state[i][1] = last.state[i][1]
              /\ state[i][2] = IF state[i][1][last.j + 1] = last.measurement
                               THEN last.state[i][2] ELSE ZZero
        /\ div2 = QMul(last.div2, IF last.measurement = 0 THEN last.prob_0
                                   ELSE QSub(QOne, last.prob_0))
        /\ Norm2(state, div2) = QOne

\* C7: the outcome measure selects has positive probability (prob_0 > 0 for
\* outcome 0, prob_0 < 1 for outcome 1), so the divisor is never zero and the
\* state stays evaluable.
C7_NoZeroDivisor ==
    Measured =>
        /\ ~broken
        /\ last.measurement = 0 => QPos(last.prob_0)
        /\ last.measurement = 1 => QLess(last.prob_0, QOne)
        /\ QPos(div2)

C7_Witness == Measured /\ last.prob_0 = QZero /\ last.r = QZero /\ calls > 1

\* C8: the classical register starts as m_bits zeros; gates and measure
\* without cbit leave it alone; measure(j, cbit=c) writes the outcome to bit c
\* and leaves the other bits alone.
C8_CbitsFrame ==
    /\ Len(cbits) = m_bits
    /\ calls = 0 => \A i \in 1..m_bits : cbits[i] = 0
    /\ IsGate(last.op) => cbits = last.cbits
    /\ (last.op = "measure" /\ ~last.hascbit) => cbits = last.cbits
    /\ (Measured /\ last.hascbit /\ last.cbit \in Cbits) =>
          \A i \in 1..m_bits :
              cbits[i] = IF i = last.cbit + 1 THEN last.measurement ELSE last.cbits[i]

C8_Witness ==
    /\ Measured /\ last.hascbit /\ last.cbit = 1
    /\ last.cbits = <<1, 0>> /\ cbits = <<1, 1>>

\* C9: h(j) applied twice in a row to a state with one nonzero basis key gives
\* back that state: the key has its amplitude again and every other key zero.
C9_HTwice ==
    [][(/\ last.op = "h" /\ ~broken
        /\ Cardinality(NonZeroKeys(last.state)) = 1
        /\ last'.op = "h" /\ last'.j = last.j /\ calls' = calls + 1)
       => SameMapping(state', last.state)]_vars

C9_Witness ==
    /\ last.op = "h" /\ last.pop = "h" /\ last.pj = last.j /\ calls = 3
    /\ \E b \in AllKeys(n_qubits) :
          /\ NonZeroKeys(state) = {b}
          /\ b[last.j + 1] = 1

====
